---- MODULE Spec2Model ----
(***************************************************************************)
(* Model of the generic GORM repository of package regorm.                 *)
(*                                                                         *)
(* The repository (Repository[T]) holds one store handle and delegates     *)
(* every operation to it, normalising only the error it hands back.  The   *)
(* model follows the revision of the package that has the full operation   *)
(* set (First, FirstOrFail, Find, FindOrFail, Create, BulkCreate, Update,  *)
(* Delete, GetDB); src/repository.go is the earlier revision of the same   *)
(* package: its Create, BulkCreate, Update, Delete and GetDB are the same, *)
(* its First and Find return every store error unsuppressed, and it has no *)
(* ...OrFail variants.                                                     *)
(*                                                                         *)
(* The store handle, a gorm.DB, is the external collaborator.  Its methods *)
(* are the Db... operators below, written from the contract the source     *)
(* comments state at each call site and from gorm's behaviour for the      *)
(* method called there.                                                    *)
(***************************************************************************)
EXTENDS Integers, FiniteSets, Sequences, TLC

\* ---------------------------------------------------------------- bounds
MaxId == 3          \* primary keys range over 1..MaxId
MaxBatch == 2       \* longest slice handed to a batch insert

Names == {"a", "b"}             \* values of the one application field
Times == {1}                    \* non-zero clock readings ("now")
Handles == {"db"}               \* the store handle of the application

\* ---------------------------------------------------------------- errors
Nil == "nil"
ErrRecordNotFound == "ErrRecordNotFound"
ErrDuplicatedKey == "ErrDuplicatedKey"
ErrMissingWhereClause == "ErrMissingWhereClause"
ErrInvalidDB == "ErrInvalidDB"
ErrEmptySlice == "ErrEmptySlice"
\* failures the store can report on any call, whatever the table holds
InjectedFailures == {ErrInvalidDB}

\* ---------------------------------------------------------------- records
\* A value of the record type T: primary key, one application field, and the
\* deletion timestamp (always 0 when T has no such field).
ZeroModel == [ID |-> 0, Name |-> "", DeletedAt |-> 0]
Model(id, name) == [ID |-> id, Name |-> name, DeletedAt |-> 0]
InputModels == {Model(id, n) : id \in 0..MaxId, n \in Names}
\* what a caller's target holds before a read: data from earlier use (a
\* zero primary key, so that it adds no condition of its own to the query)
PriorTargets == {Model(0, "a")}
PriorSlices == {{Model(0, "a")}}
\* records handed to Delete: only the primary key matters to the store
DeleteModels == {Model(id, "a") : id \in 0..MaxId}

\* Condition sets: ordered sequences of filter expressions handed to the
\* store verbatim.  <<"id", i>> is an inline primary-key condition,
\* <<"name", n>> a condition on the application field.
IdCond(i) == <<"id", i>>
NameCond(n) == <<"name", n>>
CondSets ==
    {<< >>} \cup {<<IdCond(i)>> : i \in 1..MaxId}
            \cup {<<NameCond(n)>> : n \in Names}
            \cup {<<NameCond("a"), IdCond(1)>>}

VARIABLES
    database,    \* the handle given to InitRepository
    r,           \* the Repository[T] value InitRepository returned
    softDelete,  \* whether T has a deletion-timestamp field
    table,       \* rows of T's table in the store
    nextId,      \* the store's auto-increment counter
    last         \* the last completed call: inputs, store report, results

vars == <<database, r, softDelete, table, nextId, last>>

\* ------------------------------------------------------- the store handle
\* Rows a default (scoped) query sees: soft-deleted rows are filtered out.
Visible(tbl) == {row \in tbl : row.DeletedAt = 0}

Sat(row, c) ==
    IF c[1] = "id" THEN row.ID = c[2] ELSE row.Name = c[2]

SatAll(row, conds) == \A i \in 1..Len(conds) : Sat(row, conds[i])

\* Rows matching a condition set under the default scope.
Match(tbl, conds) == {row \in Visible(tbl) : SatAll(row, conds)}

\* Rows matching a condition set with soft-delete filtering bypassed
\* (GetDB().Unscoped()).
UnscopedMatch(tbl, conds) == {row \in tbl : SatAll(row, conds)}

\* The match with the lowest primary key (ORDER BY primary key LIMIT 1).
MinRow(S) == CHOOSE row \in S : \A q \in S : row.ID <= q.ID

HasId(tbl, id) == \E row \in tbl : row.ID = id

Max(a, b) == IF a >= b THEN a ELSE b

\* What a store call hands back: the *gorm.DB result (Error, RowsAffected),
\* the destination or value it wrote through, and the store afterwards.
DbResult(e, n, dest, tbl, nid) ==
    [Error |-> e, RowsAffected |-> n, dest |-> dest, table |-> tbl,
     nextId |-> nid, calls |-> 1]

\* db.First(dest, conds...): the first match ordered by primary key;
\* ErrRecordNotFound and an untouched dest when nothing matches.
DbFirst(dest, conds, fail) ==
    LET M == Match(table, conds) IN
    IF fail # Nil THEN DbResult(fail, 0, dest, table, nextId)
    ELSE IF M = {} THEN DbResult(ErrRecordNotFound, 0, dest, table, nextId)
    ELSE DbResult(Nil, 1, MinRow(M), table, nextId)

\* db.Find(dest, conds...): all matches; the slice is reset and refilled, and
\* zero matches is not an error (gorm raises ErrRecordNotFound only from
\* First, Take and Last).  The slice is modelled as the set of its rows.
DbFind(dest, conds, fail) ==
    LET M == Match(table, conds) IN
    IF fail # Nil THEN DbResult(fail, 0, dest, table, nextId)
    ELSE DbResult(Nil, Cardinality(M), M, table, nextId)

\* db.Create(value) for one record: a zero primary key is assigned from the
\* auto-increment counter and written back into value; a primary key already
\* in the table is a constraint violation.
DbCreate(value, fail) ==
    LET id == IF value.ID = 0 THEN nextId ELSE value.ID
        row == [value EXCEPT !.ID = id]
    IN  IF fail # Nil THEN DbResult(fail, 0, value, table, nextId)
        ELSE IF HasId(table, id)
            THEN DbResult(ErrDuplicatedKey, 0, value, table, nextId)
        ELSE DbResult(Nil, 1, row, table \cup {row}, Max(nextId, id + 1))

\* db.Create(values) for a slice: one multi-row insert with keys assigned in
\* order.  An empty slice is refused (ErrEmptySlice).  When the store fails
\* it reports the k rows it had committed (0 under an atomic statement or a
\* transaction, more without one).
DbCreateBatch(values, fail, k) ==
    LET n == Len(values)
        keyed == [j \in 1..n |-> [values[j] EXCEPT !.ID = nextId + j - 1]]
        rows(m) == {keyed[j] : j \in 1..m}
    IN  IF n = 0 THEN DbResult(ErrEmptySlice, 0, values, table, nextId)
        ELSE IF fail # Nil
            THEN DbResult(fail, k, values, table \cup rows(k), nextId + k)
        ELSE DbResult(Nil, n, keyed, table \cup rows(n), nextId + n)

\* db.Save(value): a zero primary key goes down the create path; otherwise
\* the row with that key is updated with every field of value, and when the
\* update touches no row the value is inserted (upsert on conflict).
DbSave(value, fail) ==
    IF fail # Nil THEN DbResult(fail, 0, value, table, nextId)
    ELSE IF value.ID = 0 THEN DbCreate(value, fail)
    ELSE DbResult(Nil, 1, value,
                  {row \in table : row.ID # value.ID} \cup {value},
                  Max(nextId, value.ID + 1))

\* db.Delete(value): the primary key of value is the condition, and a value
\* without one is refused (ErrMissingWhereClause).  With a deletion-timestamp
\* field the matching live row gets the timestamp set to now; without one the
\* row is removed.
DbDelete(value, now, fail) ==
    LET hit == {row \in Visible(table) : row.ID = value.ID} IN
    IF fail # Nil THEN DbResult(fail, 0, value, table, nextId)
    ELSE IF value.ID = 0
        THEN DbResult(ErrMissingWhereClause, 0, value, table, nextId)
    ELSE IF softDelete
        THEN DbResult(Nil, Cardinality(hit), value,
                      (table \ hit) \cup {[row EXCEPT !.DeletedAt = now] : row \in hit},
                      nextId)
    ELSE DbResult(Nil, Cardinality(hit), value, table \ hit, nextId)

\* --------------------------------------------------------- the repository
\* InitRepository binds the handle; the embedded IRepository[T] is left nil.
InitRepository(db) == [IRepository |-> Nil, Database |-> db]

\* What a repository method hands back: its error, its count, its returned
\* pointer ("model" for the caller's own record, Nil for a nil pointer), and
\* the store call it made.
Ret(err, count, ret, res) ==
    [err |-> err, count |-> count, ret |-> ret, out |-> res.dest,
     storeErr |-> res.Error, calls |-> res.calls, panicked |-> FALSE,
     table |-> res.table, nextId |-> res.nextId]

\* First without the not-found suppression (every store error is returned).
First_Unsuppressed(model, conds, fail) ==
    LET res == DbFirst(model, conds, fail) IN
    IF res.Error # Nil
        THEN Ret(res.Error, 0, Nil, res)
        ELSE Ret(Nil, 0, Nil, res)

\* First asking the store for the last match instead of the first.
First_Last(model, conds, fail) ==
    LET M == Match(table, conds)
        last_ == CHOOSE row \in M : \A q \in M : row.ID >= q.ID
        res == IF fail # Nil THEN DbResult(fail, 0, model, table, nextId)
               ELSE IF M = {}
                   THEN DbResult(ErrRecordNotFound, 0, model, table, nextId)
               ELSE DbResult(Nil, 1, last_, table, nextId)
    IN  IF res.Error # Nil /\ res.Error # ErrRecordNotFound
            THEN Ret(res.Error, 0, Nil, res)
            ELSE Ret(Nil, 0, Nil, res)

First(model, conds, fail) ==
    LET res == DbFirst(model, conds, fail) IN
    IF res.Error # Nil /\ res.Error # ErrRecordNotFound
        THEN Ret(res.Error, 0, Nil, res)
        ELSE Ret(Nil, 0, Nil, res)

\* FirstOrFail with First's suppression copied into it.
FirstOrFail_Suppressing(model, conds, fail) ==
    LET res == DbFirst(model, conds, fail) IN
    IF res.Error # Nil /\ res.Error # ErrRecordNotFound
        THEN Ret(res.Error, 0, Nil, res)
        ELSE Ret(Nil, 0, Nil, res)

FirstOrFail(model, conds, fail) ==
    LET res == DbFirst(model, conds, fail) IN
    IF res.Error # Nil
        THEN Ret(res.Error, 0, Nil, res)
        ELSE Ret(Nil, 0, Nil, res)

\* Find dropping the store's error.
Find_Swallowing(models, conds, fail) ==
    LET res == DbFind(models, conds, fail) IN Ret(Nil, 0, Nil, res)

Find(models, conds, fail) ==
    LET res == DbFind(models, conds, fail) IN
    IF res.Error # Nil /\ res.Error # ErrRecordNotFound
        THEN Ret(res.Error, 0, Nil, res)
        ELSE Ret(Nil, 0, Nil, res)

FindOrFail(models, conds, fail) ==
    LET res == DbFind(models, conds, fail) IN
    IF res.Error # Nil
        THEN Ret(res.Error, 0, Nil, res)
        ELSE Ret(Nil, 0, Nil, res)

\* Create handing the record back even when the store failed.
Create_KeepsModel(model, fail) ==
    LET res == DbCreate(model, fail) IN
    IF res.Error # Nil
        THEN Ret(res.Error, 0, "model", res)
        ELSE Ret(Nil, 0, "model", res)

Create(model, fail) ==
    LET res == DbCreate(model, fail) IN
    IF res.Error # Nil
        THEN Ret(res.Error, 0, Nil, res)
        ELSE Ret(Nil, 0, "model", res)

BulkCreate(models, fail, k) ==
    LET res == DbCreateBatch(models, fail, k) IN
    IF res.Error # Nil
        THEN Ret(res.Error, res.RowsAffected, Nil, res)
        ELSE Ret(Nil, res.RowsAffected, Nil, res)

\* IRepository[T] declares BatchCreate; Repository[T] defines BulkCreate, so
\* BatchCreate on a Repository is the method promoted from the embedded
\* IRepository[T], which InitRepository leaves nil: the call dereferences a
\* nil interface and panics before any store call.
BatchCreate(models, fail, k) ==
    [err |-> Nil, count |-> 0, ret |-> Nil, out |-> models,
     storeErr |-> Nil, calls |-> 0, panicked |-> r.IRepository = Nil,
     table |-> table, nextId |-> nextId]

\* Update calling the store's Create instead of Save.
Update_Creating(model, fail) ==
    LET res == DbCreate(model, fail) IN
    IF res.Error # Nil
        THEN Ret(res.Error, 0, Nil, res)
        ELSE Ret(Nil, 0, Nil, res)

Update(model, fail) ==
    LET res == DbSave(model, fail) IN
    IF res.Error # Nil
        THEN Ret(res.Error, 0, Nil, res)
        ELSE Ret(Nil, 0, Nil, res)

\* Delete through an unscoped handle: the row is removed whatever the type.
Delete_Unscoped(model, now, fail) ==
    LET hit == {row \in table : row.ID = model.ID}
        res == IF fail # Nil THEN DbResult(fail, 0, model, table, nextId)
               ELSE IF model.ID = 0
                   THEN DbResult(ErrMissingWhereClause, 0, model, table, nextId)
               ELSE DbResult(Nil, Cardinality(hit), model, table \ hit, nextId)
    IN  IF res.Error # Nil
            THEN Ret(res.Error, res.RowsAffected, Nil, res)
            ELSE Ret(Nil, res.RowsAffected, Nil, res)

Delete(model, now, fail) ==
    LET res == DbDelete(model, now, fail) IN
    IF res.Error # Nil
        THEN Ret(res.Error, res.RowsAffected, Nil, res)
        ELSE Ret(Nil, res.RowsAffected, Nil, res)

GetDB == r.Database

\* ------------------------------------------------------------ the calls
Failures == {Nil} \cup InjectedFailures

\* slices of new records handed to a batch insert
Batches ==
    UNION {[1..n -> {Model(0, nm) : nm \in Names}] : n \in 0..MaxBatch}

\* whether the auto-increment counter can still hand out n keys
CanAssign(n) == nextId + n - 1 <= MaxId

\* The caller's argument of a call, before (last.in) and after (last.out):
\* a single record, a slice read into (as the set of its rows) or a slice of
\* records to insert.
OneModel(m) == [model |-> m, models |-> {}, batch |-> << >>]
Slice(ms) == [model |-> ZeroModel, models |-> ms, batch |-> << >>]
Batch(b) == [model |-> ZeroModel, models |-> {}, batch |-> b]

\* A call completes: the caller sees the method's results, the store holds
\* what the store call left.
Done(op, in, conds, res, out) ==
    /\ last' = [op |-> op, in |-> in, conds |-> conds, before |-> table,
                err |-> res.err, count |-> res.count, ret |-> res.ret,
                out |-> out, storeErr |-> res.storeErr,
                calls |-> res.calls, panicked |-> res.panicked]
    /\ table' = res.table
    /\ nextId' = res.nextId
    /\ UNCHANGED <<database, r, softDelete>>

Init ==
    /\ database \in Handles
    /\ r = InitRepository(database)
    /\ softDelete \in BOOLEAN
    /\ table = {}
    /\ nextId = 1
    /\ last = [op |-> "InitRepository", in |-> OneModel(ZeroModel),
               conds |-> << >>, before |-> {}, err |-> Nil, count |-> 0,
               ret |-> Nil, out |-> OneModel(ZeroModel), storeErr |-> Nil, calls |-> 0,
               panicked |-> FALSE]

CallFirst ==
    \E model \in PriorTargets, conds \in CondSets, fail \in Failures :
        LET res == First(model, conds, fail) IN
        Done("First", OneModel(model), conds, res, OneModel(res.out))

CallFirstOrFail ==
    \E model \in PriorTargets, conds \in CondSets, fail \in Failures :
        LET res == FirstOrFail(model, conds, fail) IN
        Done("FirstOrFail", OneModel(model), conds, res, OneModel(res.out))

CallFind ==
    \E models \in PriorSlices, conds \in CondSets, fail \in Failures :
        LET res == Find(models, conds, fail) IN
        Done("Find", Slice(models), conds, res, Slice(res.out))

CallFindOrFail ==
    \E models \in PriorSlices, conds \in CondSets, fail \in Failures :
        LET res == FindOrFail(models, conds, fail) IN
        Done("FindOrFail", Slice(models), conds, res, Slice(res.out))

CallCreate ==
    \E model \in InputModels, fail \in Failures :
        /\ model.ID = 0 => CanAssign(1)
        /\ LET res == Create(model, fail) IN
           Done("Create", OneModel(model), << >>, res, OneModel(res.out))

CallBulkCreate ==
    \E models \in Batches, fail \in Failures, k \in 0..MaxBatch :
        /\ CanAssign(Len(models))
        /\ k < Len(models) \/ k = 0
        /\ fail = Nil => k = 0
        /\ LET res == BulkCreate(models, fail, k) IN
           Done("BulkCreate", Batch(models), << >>, res, Batch(res.out))

CallBatchCreate ==
    \E models \in Batches :
        LET res == BatchCreate(models, Nil, 0) IN
        Done("BatchCreate", Batch(models), << >>, res, Batch(res.out))

CallUpdate ==
    \E model \in InputModels, fail \in Failures :
        /\ model.ID = 0 => CanAssign(1)
        /\ LET res == Update(model, fail) IN
           Done("Update", OneModel(model), << >>, res, OneModel(res.out))

CallDelete ==
    \E model \in DeleteModels, now \in Times, fail \in Failures :
        LET res == Delete(model, now, fail) IN
        Done("Delete", OneModel(model), << >>, res, OneModel(res.out))

CallGetDB ==
    /\ last' = [last EXCEPT !.op = "GetDB", !.ret = GetDB, !.calls = 0,
                            !.err = Nil, !.storeErr = Nil, !.count = 0,
                            !.panicked = FALSE, !.before = table,
                            !.in = OneModel(ZeroModel),
                            !.out = OneModel(ZeroModel),
                            !.conds = << >>]
    /\ UNCHANGED <<database, r, softDelete, table, nextId>>

Next ==
    \/ CallFirst
    \/ CallFirstOrFail
    \/ CallFind
    \/ CallFindOrFail
    \/ CallCreate
    \/ CallBulkCreate
    \/ CallBatchCreate
    \/ CallUpdate
    \/ CallDelete
    \/ CallGetDB

Spec == Init /\ [][Next]_vars

\* ------------------------------------------------------------ the claims
\* rows the call's condition set matched in the store the call ran against
Matched == Match(last.before, last.conds)

\* the store executed the call's statement (no failure of the store itself)
StoreRan == last.storeErr \notin InjectedFailures

\* a fresh target for a read issued after the last call
Fresh == Model(0, "a")

\* C1: when the condition set matches no row, First and Find return a nil
\* error; First leaves the target as it was and Find leaves the slice empty.
C1_NotFoundSuppressed ==
    (last.op \in {"First", "Find"} /\ StoreRan /\ Matched = {}) =>
        /\ last.err = Nil
        /\ last.op = "First" => last.out.model = last.in.model
        /\ last.op = "Find" => last.out.models = {}

C1_Witness ==
    /\ last.op = "First"
    /\ last.before # {}
    /\ Matched = {}
    /\ last.storeErr = ErrRecordNotFound
    /\ last.err = Nil

\* C2: when the condition set matches no row, FirstOrFail returns the
\* store's ErrRecordNotFound; when a row matches and the store reports no
\* failure it returns nil.
C2_FirstOrFailNotFound ==
    last.op = "FirstOrFail" =>
        /\ (StoreRan /\ Matched = {}) => last.err = ErrRecordNotFound
        /\ (Matched # {} /\ last.storeErr = Nil) => last.err = Nil

C2_Witness ==
    /\ last.op = "FirstOrFail"
    /\ last.before # {}
    /\ Matched = {}
    /\ last.err = ErrRecordNotFound

\* C3: when the condition set matches no row, FindOrFail returns a non-nil
\* not-found error; it never returns nil together with an empty slice.
C3_FindOrFailNotFound ==
    last.op = "FindOrFail" =>
        /\ (StoreRan /\ Matched = {}) => last.err = ErrRecordNotFound
        /\ ~(last.err = Nil /\ last.out.models = {})

\* C4: whatever the operation, an error of the store other than
\* ErrRecordNotFound reaches the caller as that same value.
C4_StoreFailureVerbatim ==
    last.storeErr \notin {Nil, ErrRecordNotFound} => last.err = last.storeErr

C4_Witness ==
    /\ last.op = "Find"
    /\ last.storeErr = ErrInvalidDB
    /\ last.err = ErrInvalidDB

\* C5: BatchCreate with N records the store inserts without failure returns
\* N and a nil error, and the store then holds N more rows.
C5_BatchCreateCount ==
    (last.op = "BatchCreate" /\ Len(last.in.batch) > 0) =>
        /\ ~last.panicked
        /\ last.err = Nil
        /\ last.count = Len(last.in.batch)
        /\ Cardinality(table) = Cardinality(last.before) + Len(last.in.batch)

\* C6: Update is an upsert: with a stored row of the record's identity that
\* row becomes the record and the number of rows stays; with no such row
\* exactly one row is added and no error is returned, every time.
C6_UpdateUpsert ==
    (last.op = "Update" /\ StoreRan) =>
        /\ last.err = Nil
        /\ HasId(last.before, last.in.model.ID) =>
            /\ Cardinality(table) = Cardinality(last.before)
            /\ last.in.model \in table
            /\ {row \in table : row.ID # last.in.model.ID}
                 = {row \in last.before : row.ID # last.in.model.ID}
        /\ ~HasId(last.before, last.in.model.ID) =>
            /\ Cardinality(table) = Cardinality(last.before) + 1
            /\ last.before \subseteq table
            /\ last.out.model \in table \ last.before

C6_Witness ==
    /\ last.op = "Update"
    /\ last.err = Nil
    /\ \E row \in last.before : row.ID = last.in.model.ID /\ row.Name # last.in.model.Name
    /\ Cardinality(last.before) >= 2

\* C7: after a successful Delete of a stored record, a type without a
\* deletion timestamp has lost the row and First by its identity finds
\* nothing; a type with one keeps the row with a non-zero timestamp, hidden
\* from default First and Find, visible to an unscoped lookup.
C7_DeleteSoftOrHard ==
    (last.op = "Delete" /\ last.err = Nil /\ HasId(last.before, last.in.model.ID)) =>
        LET id == last.in.model.ID
            byId == <<IdCond(id)>>
            first == First(Fresh, byId, Nil)
            found == Find({}, byId, Nil)
        IN  /\ first.err = Nil /\ first.out = Fresh
            /\ first.storeErr = ErrRecordNotFound
            /\ found.out = {}
            /\ \A conds \in CondSets :
                 /\ First(Fresh, conds, Nil).out.ID # id
                 /\ \A row \in Find({}, conds, Nil).out : row.ID # id
            /\ ~softDelete => ~HasId(table, id)
            /\ softDelete =>
                 \E row \in UnscopedMatch(table, byId) :
                     row.ID = id /\ row.DeletedAt # 0

C7_Witness ==
    /\ last.op = "Delete"
    /\ last.err = Nil
    /\ last.count = 1
    /\ softDelete
    /\ \E row \in table : row.ID = last.in.model.ID /\ row.DeletedAt # 0
    /\ Visible(table) # {}

\* C8: a successful Create returns the caller's own record with a non-zero
\* identity, and First by that identity then fills its target with an equal
\* record and returns nil; a failed Create returns a nil record and the
\* store's error.
C8_CreateRoundTrip ==
    last.op = "Create" =>
        /\ last.storeErr = Nil =>
            /\ last.err = Nil
            /\ last.ret = "model"
            /\ last.out.model.ID # 0
            /\ LET first == First(Fresh, <<IdCond(last.out.model.ID)>>, Nil)
               IN  first.err = Nil /\ first.out = last.out.model
        /\ last.storeErr # Nil =>
            /\ last.ret = Nil
            /\ last.err = last.storeErr

C8_Witness ==
    /\ last.op = "Create"
    /\ last.err = Nil
    /\ last.in.model.ID = 0
    /\ last.out.model.ID > 1
    /\ last.before # {}

\* C9: when the condition set matches a row, First and FirstOrFail fill the
\* target with the match of lowest primary key, Find and FindOrFail fill the
\* slice with exactly the matching rows, and all four return nil.
C9_ReadsFillTarget ==
    (StoreRan /\ Matched # {}) =>
        /\ last.op \in {"First", "FirstOrFail"} =>
            /\ last.err = Nil
            /\ last.out.model \in Matched
            /\ \A row \in Matched : last.out.model.ID <= row.ID
        /\ last.op \in {"Find", "FindOrFail"} =>
            /\ last.err = Nil
            /\ last.out.models = Matched

C9_Witness ==
    /\ last.op = "First"
    /\ Cardinality(Matched) >= 2
    /\ Matched # last.before
    /\ last.err = Nil
    /\ last.out.model \in Matched

\* C10: every data operation makes exactly one call on the bound handle,
\* GetDB makes none, and GetDB keeps returning the handle InitRepository got.
C10_OneStoreCall ==
    /\ last.op \in {"First", "FirstOrFail", "Find", "FindOrFail", "Create",
                    "BatchCreate", "BulkCreate", "Update", "Delete"}
         => last.calls = 1
    /\ last.op = "GetDB" => last.calls = 0 /\ last.ret = database
    /\ GetDB = database

====
